---------------------------- MODULE Spec2Model ----------------------------
(***************************************************************************)
(* A model of the Netflix NL Top 10 cache builder                          *)
(* (.github/scripts/build_cache.py) and of the live catalog add-on         *)
(* (app.py).                                                               *)
(*                                                                         *)
(* Strings are sequences of one-character strings, so that lower(),        *)
(* strip() and the regular expressions of the code are computed character  *)
(* by character.  The en dash U+2013 is written EnDash.                    *)
(***************************************************************************)
EXTENDS Integers, Sequences, FiniteSets, TLC

VARIABLES
    pc,       \* where main() of build_cache.py is
    api_key,  \* whether TMDB_API_KEY is set
    fetch,    \* fetch_first_available_html: the loop index cand and last_err
    hist,     \* (history) the dates requested so far and the last response
    page,     \* (date_str, html) as returned by fetch_first_available_html
    error,    \* the RuntimeError main() ended with
    lists,    \* shows and movies, the results of table_to_top10
    build,    \* build_metas: is_series, list_titles, the loop index, metas, and
              \* (history) the tmdb_id found for each title
    calls,    \* (history) the requests sent to TMDB
    files,    \* the content of cache/netflix_nl_series.json and ..._movies.json
    cat,      \* catalog() of app.py: where it is, titles, the loop index, metas,
              \* and (history) whether each title was resolved
    clean,    \* clean_title on one title: [pc, s, once, twice]
    tbl,      \* table_to_top10 on one table: [pc, df, out]
    tud       \* fetch_tudum_titles on one page: [pc, page, titles]

mainVars == <<pc, fetch, hist, page, error, lists, build, calls, files>>
vars == <<pc, api_key, fetch, hist, page, error, lists, build, calls, files, cat, clean, tbl, tud>>

None == "None"

(***************************************************************************)
(* Characters and strings                                                  *)
(***************************************************************************)
EnDash == "endash"

Uppers == <<"A","B","C","D","E","F","G","H","I","J","K","L","M",
            "N","O","P","Q","R","S","T","U","V","W","X","Y","Z">>
Lowers == <<"a","b","c","d","e","f","g","h","i","j","k","l","m",
            "n","o","p","q","r","s","t","u","v","w","x","y","z">>
Digits == {"0","1","2","3","4","5","6","7","8","9"}

IsUpper(c) == \E i \in DOMAIN Uppers : Uppers[i] = c
IsLowerCh(c) == \E i \in DOMAIN Lowers : Lowers[i] = c
IsLetter(c) == IsUpper(c) \/ IsLowerCh(c)
IsDigit(c) == c \in Digits
IsSpace(c) == c \in {" ", "\t"}

\* str.lower(), one character
LowerCh(c) ==
    IF IsUpper(c) THEN Lowers[CHOOSE i \in DOMAIN Uppers : Uppers[i] = c] ELSE c

\* str.lower()
Lower(s) == [i \in DOMAIN s |-> LowerCh(s[i])]

Min(S) == CHOOSE x \in S : \A y \in S : x <= y
Max(S) == CHOOSE x \in S : \A y \in S : x >= y

\* str.strip(chars)
StripChars(s, chars) ==
    LET keep == {i \in DOMAIN s : s[i] \notin chars}
    IN  IF keep = {} THEN <<>> ELSE SubSeq(s, Min(keep), Max(keep))

\* whether the string w occurs in s at position i, ignoring case (re.I)
WordAt(s, i, w) ==
    /\ i >= 1
    /\ i + Len(w) - 1 <= Len(s)
    /\ \A k \in 1..Len(w) : LowerCh(s[i + k - 1]) = LowerCh(w[k])

\* the position after the longest run of whitespace (of digits) starting at i
RECURSIVE SkipSpaces(_, _)
SkipSpaces(s, i) ==
    IF i <= Len(s) /\ IsSpace(s[i]) THEN SkipSpaces(s, i + 1) ELSE i

RECURSIVE SkipDigits(_, _)
SkipDigits(s, i) ==
    IF i <= Len(s) /\ IsDigit(s[i]) THEN SkipDigits(s, i + 1) ELSE i

RECURSIVE Concat(_)
Concat(ss) == IF ss = <<>> THEN <<>> ELSE Head(ss) \o Concat(Tail(ss))

(***************************************************************************)
(* app.py: clean_title                                                     *)
(***************************************************************************)
SeasonWord == <<"S","e","a","s","o","n">>
LimitedSeries == <<"L","i","m","i","t","e","d"," ","S","e","r","i","e","s">>

\* r"\s*<sep>\s*Season\s*\d+\s*$" matched at position i (re.I).  Every
\* quantified class is followed by a character outside it, so the greedy
\* match is the only one.
SeasonTailAt(s, i, sep) ==
    LET j1 == SkipSpaces(s, i)
        j2 == SkipSpaces(s, j1 + 1)
        j3 == SkipSpaces(s, j2 + Len(SeasonWord))
        j4 == SkipDigits(s, j3)
        j5 == SkipSpaces(s, j4)
    IN  /\ j1 <= Len(s)
        /\ s[j1] = sep
        /\ WordAt(s, j2, SeasonWord)
        /\ j4 > j3
        /\ j5 = Len(s) + 1

\* re.sub(r"\s*<sep>\s*Season\s*\d+\s*$", "", s, flags=re.I): the leftmost
\* match is removed; it reaches the end of the string, so there is one.
SubSeasonTail(s, sep) ==
    LET starts == {i \in DOMAIN s : SeasonTailAt(s, i, sep)}
    IN  IF starts = {} THEN s ELSE SubSeq(s, 1, Min(starts) - 1)

\* r"\s*\(.*?Limited Series.*?\)" matched at position i: the end of the
\* match (0 when there is none).  The lazy .*? stop at the first
\* "Limited Series" after the parenthesis and at the first ")" after that.
LimitedEndAt(s, i) ==
    LET j == SkipSpaces(s, i)
        ls == {k \in (j + 1)..Len(s) : WordAt(s, k, LimitedSeries)}
        k0 == Min(ls)
        cl == {m \in (k0 + Len(LimitedSeries))..Len(s) : s[m] = ")"}
    IN  IF j <= Len(s) /\ s[j] = "(" /\ ls # {} /\ cl # {}
        THEN Min(cl) ELSE 0

\* re.sub(r"\s*\(.*?Limited Series.*?\)", "", s, flags=re.I): every
\* non-overlapping match, leftmost first, is removed.
RECURSIVE SubLimited(_)
SubLimited(s) ==
    LET starts == {i \in DOMAIN s : LimitedEndAt(s, i) # 0}
        i0 == Min(starts)
    IN  IF starts = {} THEN s
        ELSE SubSeq(s, 1, i0 - 1)
             \o SubLimited(SubSeq(s, LimitedEndAt(s, i0) + 1, Len(s)))

clean_title(s) ==
    LET s1 == SubLimited(s)
        s2 == SubSeasonTail(s1, ":")
        s3 == SubSeasonTail(s2, "-")
    IN  StripChars(s3, {" ", EnDash, "-"})

(***************************************************************************)
(* build_cache.py: table_to_top10                                          *)
(*                                                                         *)
(* A DataFrame is [columns, rows]: the header of each column and, per row, *)
(* one cell per column.  A cell is a number, a string or NaN.              *)
(***************************************************************************)
Num(n) == [t |-> "num", n |-> n, s |-> <<>>]
Str(s) == [t |-> "str", n |-> 0, s |-> s]
NaN == [t |-> "nan", n |-> 0, s |-> <<>>]

\* the value None where a DataFrame is expected: a frame read from a table
\* has columns
NoneDf == [columns |-> <<>>, rows |-> <<>>]

DigitSeq == <<"0","1","2","3","4","5","6","7","8","9">>
DigitVal(c) == (CHOOSE i \in DOMAIN DigitSeq : DigitSeq[i] = c) - 1

RECURSIVE ParseInt(_)
ParseInt(s) ==
    IF s = <<>> THEN 0
    ELSE 10 * ParseInt(SubSeq(s, 1, Len(s) - 1)) + DigitVal(s[Len(s)])

RECURSIVE IntToStr(_)
IntToStr(n) ==
    IF n < 10 THEN <<DigitSeq[n + 1]>>
    ELSE IntToStr(n \div 10) \o <<DigitSeq[(n % 10) + 1]>>

\* pd.to_numeric(cell, errors="coerce")
to_numeric(c) ==
    LET body == StripChars(c.s, {" ", "\t"})
    IN  CASE c.t = "num" -> c
          [] c.t = "str" /\ body # <<>> /\ \A i \in DOMAIN body : IsDigit(body[i])
                -> Num(ParseInt(body))
          [] OTHER -> NaN

\* str(cell)
PyStr(c) ==
    CASE c.t = "num" -> IntToStr(c.n)
      [] c.t = "str" -> c.s
      [] OTHER -> <<"n","a","n">>

NameHeaders == << <<"t","i","t","l","e">>, <<"s","h","o","w">>,
                  <<"p","r","o","g","r","a","m">>, <<"f","i","l","m">>,
                  <<"n","a","m","e">> >>
HashHeader == <<"#">>
RankHeader == <<"r","a","n","k">>

\* line 85: the headers, stripped and lowercased
NormColumns(df) ==
    [i \in DOMAIN df.columns |-> Lower(StripChars(df.columns[i], {" ", "\t"}))]

ColumnIndex(cols, h) == Min({i \in DOMAIN cols : cols[i] = h})
HasColumn(cols, h) == \E i \in DOMAIN cols : cols[i] = h

\* lines 87-93: the title column
NameCol(df) ==
    LET cols == NormColumns(df)
        found == {k \in DOMAIN NameHeaders : HasColumn(cols, NameHeaders[k])}
    IN  IF found # {} THEN ColumnIndex(cols, NameHeaders[Min(found)]) ELSE 1

\* lines 95-97: the rank column (0: none)
RankCol(df) ==
    LET cols == NormColumns(df)
    IN  IF HasColumn(cols, HashHeader) THEN ColumnIndex(cols, HashHeader)
        ELSE IF HasColumn(cols, RankHeader) THEN ColumnIndex(cols, RankHeader)
        ELSE 0

\* line 101: the rank column made numeric
Coerced(df) ==
    LET rc == RankCol(df)
    IN  IF rc = 0 THEN df.rows
        ELSE [i \in DOMAIN df.rows |->
                [df.rows[i] EXCEPT ![rc] = to_numeric(df.rows[i][rc])]]

Injective(f) == \A a, b \in DOMAIN f : f[a] = f[b] => a = b

\* line 102: the row orders d.sort_values(by=rank_col) may produce.  NaN
\* ranks go last in their original order; the default sort (quicksort) is
\* not stable, so rows of equal rank come in any order.
SortOrders(df) ==
    LET rows == Coerced(df)
        rc == RankCol(df)
        n == Len(rows)
        key(i) == rows[i][rc]
    IN  IF rc = 0 THEN {[i \in 1..n |-> i]}
        ELSE {p \in [1..n -> 1..n] :
                /\ Injective(p)
                /\ \A i, j \in 1..n : i < j =>
                     \/ key(p[i]).t = "num" /\ key(p[j]).t = "num"
                        /\ key(p[i]).n <= key(p[j]).n
                     \/ key(p[i]).t = "num" /\ key(p[j]).t = "nan"
                     \/ key(p[i]).t = "nan" /\ key(p[j]).t = "nan"
                        /\ p[i] < p[j]}

TopN == 10

\* lines 105-112: the (rank, name) of every row with a name; a row without
\* a numeric rank takes the running counter r
RECURSIVE RankedRows(_, _, _, _)
RankedRows(rows, nc, rc, r) ==
    IF rows = <<>> THEN <<>>
    ELSE LET row == Head(rows)
             name == StripChars(PyStr(row[nc]), {" ", "\t"})
             rr == IF rc # 0 /\ row[rc].t # "nan" THEN row[rc].n ELSE r
         IN  IF name = <<>> THEN RankedRows(Tail(rows), nc, rc, r)
             ELSE <<[rank |-> rr, name |-> name]>>
                  \o RankedRows(Tail(rows), nc, rc, r + 1)

\* lines 114-124: deduplicated on the lowercased title, first one kept
RECURSIVE DedupLower(_, _, _)
DedupLower(out, seen, unique) ==
    IF out = <<>> \/ Len(unique) = TopN THEN unique
    ELSE IF Lower(Head(out).name) \in seen
         THEN DedupLower(Tail(out), seen, unique)
         ELSE DedupLower(Tail(out), seen \cup {Lower(Head(out).name)},
                         Append(unique, Head(out)))

\* table_to_top10(df), with the order the sort produced
table_to_top10(df, order) ==
    IF df = NoneDf \/ df.rows = <<>> \/ df.columns = <<>> THEN <<>>
    ELSE LET rows == Coerced(df)
             sorted == [i \in DOMAIN rows |-> rows[order[i]]]
             d == SubSeq(sorted, 1, IF Len(sorted) < TopN THEN Len(sorted) ELSE TopN)
         IN  DedupLower(RankedRows(d, NameCol(df), RankCol(df), 1), {}, <<>>)

\* the orders of the rows of df (None has none to sort)
OrdersOf(df) == IF df = NoneDf THEN {<<>>} ELSE SortOrders(df)

(***************************************************************************)
(* Tables given to table_to_top10: two columns under one of the header     *)
(* layouts, up to MaxRows rows.                                            *)
(***************************************************************************)
MaxRows == 3

Layouts == { << <<"#">>, <<"T","i","t","l","e">> >>,
             << <<"R","a","n","k"," ">>, <<"N","a","m","e">> >>,
             << <<"0">>, <<"1">> >> }

RankCells == {Num(1), Num(2), Str(<<"3">>), NaN}
NameCells == {Str(<<"A">>), Str(<<"a">>), Str(<<"B">>), Str(<<" ">>)}

RECURSIVE RowSeqs(_, _)
RowSeqs(n, cells) ==
    IF n = 0 THEN {<<>>}
    ELSE LET shorter == RowSeqs(n - 1, cells)
         IN  shorter \cup {Append(q, c) : q \in shorter, c \in cells}

Frames(n, ranks, names) ==
    {[columns |-> l, rows |-> r] :
        l \in Layouts, r \in RowSeqs(n, {<<a, b>> : a \in ranks, b \in names})}

(***************************************************************************)
(* build_cache.py: parse_netflix_top10                                     *)
(*                                                                         *)
(* The Netflix block is the sequence of its tables, each with the label    *)
(* label_table gives it ("movies", "shows" or None) and the frame          *)
(* pd.read_html reads from it.                                             *)
(***************************************************************************)
FirstLabeled(tables, lab) ==
    LET at == {i \in DOMAIN tables : tables[i].label = lab}
    IN  IF at = {} THEN NoneDf ELSE tables[Min(at)].df

\* lines 129-190.  bool(DataFrame) raises ValueError, so "not movies" and
\* "not shows" (lines 171-174) raise as soon as the operand is a frame; the
\* except clause of line 177 then re-reads the first two tables when there
\* are two, and otherwise leaves movies and shows as they were.
parse_netflix_top10(tables) ==
    LET n == Len(tables)
        movies0 == FirstLabeled(tables, "movies")
        shows0 == FirstLabeled(tables, "shows")
        fallback(m, s) ==
            IF n >= 2 THEN [movies |-> tables[1].df, shows |-> tables[2].df]
            ELSE [movies |-> m, shows |-> s]
    IN  IF n = 0 THEN fallback(NoneDf, NoneDf)        \* read_html: no tables found
        ELSE IF movies0 # NoneDf THEN fallback(movies0, shows0)   \* line 171 raises
        ELSE IF n >= 2
             THEN IF shows0 # NoneDf
                  THEN fallback(tables[1].df, shows0)             \* line 174 raises
                  ELSE [movies |-> tables[1].df, shows |-> tables[2].df]
             ELSE [movies |-> NoneDf, shows |-> tables[1].df]     \* line 176

(***************************************************************************)
(* build_cache.py: tmdb_lookup, build_metas                                *)
(***************************************************************************)
NoneInt == [some |-> FALSE, v |-> 0]
Some(v) == [some |-> TRUE, v |-> v]
NoneStr == <<"None">>

\* Python truth of an optional integer / an optional string
Truthy(x) == x.some /\ x.v # 0
TruthyStr(s) == s # NoneStr /\ s # <<>>

SearchTv == "https://api.themoviedb.org/3/search/tv"
SearchMovie == "https://api.themoviedb.org/3/search/movie"

\* tmdb_requests trying the other kind as well
tmdb_requests_both(is_series) ==
    IF is_series THEN <<SearchTv, SearchMovie>> ELSE <<SearchMovie, SearchTv>>

\* line 196: the endpoints one lookup queries, in order
tmdb_requests(is_series) == IF is_series THEN <<SearchTv>> ELSE <<SearchMovie>>

\* lines 192-211: the (id, poster_path) of a lookup whose request is answered
\* by reply: [kind |-> "error"] (an exception of any kind) or
\* [kind |-> "ok", results |-> <<...>>]
tmdb_lookup(has_key, reply) ==
    IF ~has_key THEN [id |-> NoneInt, poster_path |-> NoneStr]
    ELSE IF reply.kind = "ok" /\ reply.results # <<>>
         THEN [id |-> reply.results[1].id,
               poster_path |-> reply.results[1].poster_path]
         ELSE [id |-> NoneInt, poster_path |-> NoneStr]

FallbackSeries == <<"f","l","i","x","-","f","a","l","l","b","a","c","k","-","s">>
FallbackMovie == <<"f","l","i","x","-","f","a","l","l","b","a","c","k","-","m">>
TmdbTv == <<"t","m","d","b",":","t","v",":">>
TmdbMovie == <<"t","m","d","b",":","m","o","v","i","e",":">>
PosterBase == <<"h","t","t","p","s",":","/","/","i","m","a","g","e",".","t","m","d","b",".","o","r","g","/","t","/","p","/","w","5","0","0">>
DescriptionHead == <<"N","e","t","f","l","i","x"," ","N","L"," ","T","o","p"," ","1","0"," ",EnDash," ","p","o","s","i","t","i","e"," ","#">>

\* lines 217-229: the record of one ranked title
build_meta(entry, is_series, found) ==
    [id |-> IF is_series
            THEN IF Truthy(found.id) THEN TmdbTv \o IntToStr(found.id.v)
                 ELSE FallbackSeries \o IntToStr(entry.rank)
            ELSE IF Truthy(found.id) THEN TmdbMovie \o IntToStr(found.id.v)
                 ELSE FallbackMovie \o IntToStr(entry.rank),
     type |-> IF is_series THEN "series" ELSE "movie",
     name |-> entry.name,
     poster |-> IF TruthyStr(found.poster_path)
                THEN PosterBase \o found.poster_path ELSE NoneStr,
     description |-> DescriptionHead \o IntToStr(entry.rank)]

\* AppendMeta keeping only the records that have a poster
AppendMetaWithPoster(metas, meta) ==
    IF meta.poster = NoneStr THEN metas ELSE Append(metas, meta)

\* line 223: metas.append(...)
AppendMeta(metas, meta) == Append(metas, meta)

(***************************************************************************)
(* build_cache.py: fetch_first_available_html, find_netflix_section, main  *)
(***************************************************************************)
DaysBack == 7

MarkerNetflix == "Netflix TOP 10 in the Netherlands"
MarkerMovies == "TOP 10 Movies"

\* Verdict without the sanity check of line 35
VerdictUnchecked(resp) ==
    IF resp.raised THEN "error"
    ELSE IF resp.status = 404 THEN "404"
    ELSE IF resp.status >= 400 /\ resp.status < 600 THEN "error"
    ELSE "ok"

\* line 29-37: what one response does to the loop
\*   "404", "error" (raise_for_status or the request raised), "content", "ok"
Verdict(resp) ==
    IF resp.raised THEN "error"
    ELSE IF resp.status = 404 THEN "404"
    ELSE IF resp.status >= 400 /\ resp.status < 600 THEN "error"
    ELSE IF MarkerNetflix \notin resp.html.markers
            /\ MarkerMovies \notin resp.html.markers THEN "content"
    ELSE "ok"

\* lines 43-78: "heading", "empty" (the two RuntimeErrors) or "block"
find_netflix_section(html) ==
    IF html.heading = "none" THEN "heading"
    ELSE IF html.block = "blank" THEN "empty"
    ELSE "block"

NoHtml == [markers |-> {}, heading |-> "none", block |-> "blank"]
NoPage == [date |-> 0 - 1, html |-> NoHtml]
NoResp == [raised |-> TRUE, status |-> 0, html |-> NoHtml]

Doc(metas) == [kind |-> "doc", metas |-> metas]
Truncated == [kind |-> "truncated", metas |-> <<>>]

\* the artifacts of the previous run
OldMeta(is_series) ==
    build_meta([rank |-> 1, name |-> <<"O","l","d">>], is_series,
               [id |-> NoneInt, poster_path |-> NoneStr])
OldFiles == [series |-> Doc(<<OldMeta(TRUE)>>), movies |-> Doc(<<OldMeta(FALSE)>>)]

\* the responses of FlixPatrol
\* the pages of FlixPatrol: the marker strings in the text, the Netflix
\* heading ("exact": line 50, "loose": line 57) and what follows it
Htmls == {[markers |-> {}, heading |-> "none", block |-> "blank"],
          [markers |-> {MarkerMovies}, heading |-> "none", block |-> "filled"],
          [markers |-> {MarkerNetflix}, heading |-> "exact", block |-> "blank"],
          [markers |-> {MarkerNetflix, MarkerMovies}, heading |-> "exact", block |-> "filled"],
          [markers |-> {MarkerMovies}, heading |-> "loose", block |-> "filled"]}
Responses ==
    {NoResp}
    \cup {[raised |-> FALSE, status |-> s, html |-> NoHtml] : s \in {404, 500}}
    \cup {[raised |-> FALSE, status |-> 200, html |-> h] : h \in Htmls}

\* the tables of a Netflix block
MaxPageRows == 2
PageFrames == {f \in Frames(MaxPageRows, {Num(1), NaN}, {Str(<<"A">>), Str(<<"B">>)}) :
                 f.columns[1] = <<"#">>}
Labels == {"movies", "shows", None}
Blocks ==
    {<<>>}
    \cup {<<[label |-> l, df |-> f]>> : l \in Labels, f \in PageFrames}
    \cup {<<[label |-> l1, df |-> f1], [label |-> l2, df |-> f2]>> :
            l1 \in Labels, l2 \in Labels,
            f1 \in PageFrames, f2 \in PageFrames}

\* the replies of TMDB
TmdbHits == {[id |-> Some(1399), poster_path |-> <<"/","a",".","j","p","g">>]}
Replies ==
    {[kind |-> "error", results |-> <<>>], [kind |-> "ok", results |-> <<>>]}
    \cup {[kind |-> "ok", results |-> <<h>>] : h \in TmdbHits}

NoFetch == [cand |-> 0, last_err |-> None]
NoHist == [requested |-> <<>>, resp |-> NoResp]
NoBuild == [is_series |-> TRUE, list |-> <<>>, i |-> 1, metas |-> <<>>, found |-> <<>>]

MainInit ==
    /\ pc = "fetch"
    /\ api_key \in BOOLEAN
    /\ fetch = NoFetch
    /\ hist = NoHist
    /\ page = NoPage
    /\ error = None
    /\ lists = [shows |-> <<>>, movies |-> <<>>]
    /\ build = NoBuild
    /\ calls = <<>>
    /\ files = OldFiles

\* lines 24-40: one turn of the loop of fetch_first_available_html; on
\* return its locals are gone
Request ==
    /\ pc = "fetch"
    /\ fetch.cand <= DaysBack
    /\ \E resp \in Responses :
         /\ hist' = [requested |-> Append(hist.requested, fetch.cand), resp |-> resp]
         /\ IF Verdict(resp) = "ok"
            THEN /\ page' = [date |-> fetch.cand, html |-> resp.html]
                 /\ fetch' = NoFetch
                 /\ pc' = "fetched"
            ELSE /\ fetch' = [cand |-> fetch.cand + 1, last_err |-> Verdict(resp)]
                 /\ UNCHANGED <<page, pc>>
    /\ UNCHANGED <<api_key, error, lists, build, calls, files, cat, clean, tbl, tud>>

\* line 41: every date was tried
GiveUp ==
    /\ pc = "fetch"
    /\ fetch.cand > DaysBack
    /\ pc' = "failed"
    /\ error' = "no page"
    /\ fetch' = NoFetch
    /\ UNCHANGED <<api_key, hist, page, lists, build, calls, files, cat, clean, tbl, tud>>

\* lines 102 and 236-237: the lists table_to_top10 can return for a frame,
\* one per order the sort can produce
TopLists(df) == {table_to_top10(df, order) : order \in OrdersOf(df)}

\* lines 235-238 of main: the lists main can read from a Netflix block
Extractions ==
    UNION {{[shows |-> s, movies |-> m] :
              s \in TopLists(dfs.shows), m \in TopLists(dfs.movies)} :
           dfs \in {parse_netflix_top10(tables) : tables \in Blocks}}

\* Extract with the series file opened before the lists are looked at
ExtractOpensFirst ==
    /\ pc = "fetched"
    /\ LET sec == find_netflix_section(page.html)
       IN  IF sec # "block"
           THEN /\ pc' = "failed"
                /\ error' = sec
                /\ UNCHANGED <<lists, build, files>>
           ELSE \E got \in Extractions :
                  /\ files' = [files EXCEPT !.series = Truncated]
                  /\ IF got.shows = <<>> /\ got.movies = <<>>
                     THEN /\ pc' = "failed"
                          /\ error' = "no top10"
                          /\ UNCHANGED <<lists, build>>
                     ELSE /\ pc' = "build"
                          /\ error' = None
                          /\ lists' = got
                          /\ build' = [NoBuild EXCEPT !.list = got.shows]
    /\ UNCHANGED <<api_key, fetch, hist, page, calls, cat, clean, tbl, tud>>

\* lines 234-243 of main: the section, its tables, the two lists
Extract ==
    /\ pc = "fetched"
    /\ LET sec == find_netflix_section(page.html)
       IN  IF sec # "block"
           THEN /\ pc' = "failed"
                /\ error' = sec
                /\ UNCHANGED <<lists, build>>
           ELSE \E got \in Extractions :
                  IF got.shows = <<>> /\ got.movies = <<>>
                  THEN /\ pc' = "failed"
                       /\ error' = "no top10"
                       /\ UNCHANGED <<lists, build>>
                  ELSE /\ pc' = "build"
                       /\ error' = None
                       /\ lists' = got
                       /\ build' = [NoBuild EXCEPT !.list = got.shows]
    /\ UNCHANGED <<api_key, fetch, hist, page, calls, files, cat, clean, tbl, tud>>

\* lines 215-229: one turn of the loop of build_metas
Lookup ==
    /\ pc = "build"
    /\ build.i <= Len(build.list)
    /\ \E reply \in (IF api_key THEN Replies ELSE {[kind |-> "none", results |-> <<>>]}) :
         LET entry == build.list[build.i]
             found == tmdb_lookup(api_key, reply)
             urls == IF api_key THEN tmdb_requests(build.is_series) ELSE <<>>
         IN  /\ build' = [build EXCEPT
                  !.i = @ + 1,
                  !.found = Append(@, found.id),
                  !.metas = AppendMeta(@, build_meta(entry, build.is_series, found))]
             /\ calls' = calls \o
                  [k \in DOMAIN urls |->
                     [is_series |-> build.is_series, i |-> build.i,
                      url |-> urls[k], reply |-> reply.kind]]
    /\ UNCHANGED <<pc, api_key, fetch, hist, page, error, lists, files, cat, clean, tbl, tud>>

Target == IF build.is_series THEN "series" ELSE "movies"

\* lines 247, 251, 257, 261: open(path, "w") truncates the artifact
OpenFile ==
    /\ pc = "build"
    /\ build.i > Len(build.list)
    /\ files' = [files EXCEPT ![Target] = Truncated]
    /\ pc' = "dump"
    /\ UNCHANGED <<api_key, fetch, hist, page, error, lists, build, calls, cat, clean, tbl, tud>>

\* lines 248, 252, 258, 262: json.dump and the end of the with block
DumpFile ==
    /\ pc = "dump"
    /\ files' = [files EXCEPT ![Target] = Doc(build.metas)]
    /\ IF build.is_series
       THEN /\ build' = [NoBuild EXCEPT !.is_series = FALSE, !.list = lists.movies]
            /\ pc' = "build"
       ELSE /\ pc' = "done"
            /\ UNCHANGED build
    /\ UNCHANGED <<api_key, fetch, hist, page, error, lists, calls, cat, clean, tbl, tud>>

\* the process is killed
Crash ==
    /\ pc \in {"fetch", "fetched", "build", "dump"}
    /\ pc' = "crashed"
    /\ UNCHANGED <<api_key, fetch, hist, page, error, lists, build, calls, files, cat, clean, tbl, tud>>

(***************************************************************************)
(* Titles given to clean_title: a base title followed by up to MaxChunks   *)
(* qualifiers.                                                             *)
(***************************************************************************)
MaxChunks == 3

BaseTitle == <<"D","a","r","k">>

Chunks == {
    <<":"," ">> \o SeasonWord \o <<" ","1">>,
    <<" ","-"," ">> \o SeasonWord \o <<" ","2">>,
    <<" ","(">> \o LimitedSeries \o <<")">>,
    <<" ","-">>,
    <<" ">>,
    <<EnDash>>,
    <<" ","(","2","0","2","4",")">> }

RECURSIVE ChunkSeqs(_)
ChunkSeqs(n) ==
    IF n = 0 THEN {<<>>}
    ELSE LET shorter == ChunkSeqs(n - 1)
         IN  shorter \cup {Append(q, c) : q \in shorter, c \in Chunks}

RawTitles == {BaseTitle \o Concat(q) : q \in ChunkSeqs(MaxChunks)}

CleanIdle == [pc |-> "idle", s |-> <<>>, once |-> <<>>, twice |-> <<>>]

CleanInit ==
    clean \in {[pc |-> "in", s |-> t, once |-> <<>>, twice |-> <<>>] : t \in RawTitles}

\* the title is normalised, and the result normalised again
Normalize ==
    /\ clean.pc = "in"
    /\ clean' = [clean EXCEPT !.pc = "out",
                              !.once = clean_title(clean.s),
                              !.twice = clean_title(clean_title(clean.s))]
    /\ UNCHANGED <<mainVars, api_key, cat, tbl, tud>>

(***************************************************************************)
(* app.py: looks_like_title, fetch_tudum_titles                            *)
(***************************************************************************)
BAD_SUBSTR == {
    <<"s","i","g","n"," ","i","n">>,
    <<"l","o","g"," ","i","n">>,
    <<"n","/","a">>,
    <<"t","u","d","u","m">>,
    <<"n","e","t","f","l","i","x">>,
    <<"t","o","p"," ","1","0">>,
    <<"w","e","e","k">>,
    <<"n","e","t","h","e","r","l","a","n","d","s">>,
    <<"n","l">>,
    <<"t","v">>,
    <<"s","e","r","i","e","s">>,
    <<"c","l","i","p">>,
    <<"w","a","t","c","h">>,
    <<"p","o","p","u","l","a","r">>,
    <<"h","e","l","p">>,
    <<"p","r","i","v","a","c","y">>,
    <<"c","o","o","k","i","e">>,
    <<"m","e","t","h","o","d","o","l","o","g","y">> }

Contains(s, w) == \E i \in 1..Len(s) : WordAt(s, i, w)

\* re.sub(r"\s+", " ", s): every run of whitespace becomes one space
RECURSIVE CollapseSpaces(_)
CollapseSpaces(s) ==
    IF s = <<>> THEN <<>>
    ELSE IF IsSpace(s[1])
         THEN <<" ">> \o CollapseSpaces(SubSeq(s, SkipSpaces(s, 1), Len(s)))
         ELSE <<s[1]>> \o CollapseSpaces(Tail(s))

MinTitleLen == 2
MaxTitleLen == 140

looks_like_title(t) ==
    LET s == StripChars(CollapseSpaces(t), {" ", "\t"})
        low == Lower(s)
    IN  /\ MinTitleLen <= Len(s)
        /\ Len(s) <= MaxTitleLen
        /\ \A b \in BAD_SUBSTR : ~Contains(low, b)
        /\ ~(Len(s) <= 2 /\ \A i \in DOMAIN s : IsLetter(s[i]))

\* lines 70-71, 79-80, 84-85, 92-93: a candidate that passes is appended
\* unless the list holds it already
Keep(titles, t2) ==
    IF looks_like_title(t2) /\ \A i \in DOMAIN titles : titles[i] # t2
    THEN Append(titles, t2) ELSE titles

\* lines 68-71, 77-80, 82-85, 90-93: one loop over the strings found
RECURSIVE Collect(_, _)
Collect(titles, found) ==
    IF found = <<>> THEN titles
    ELSE Collect(Keep(titles, clean_title(Head(found))), Tail(found))

TudumN == 10

\* lines 63-73.  A page is what the three strategies find in it: the "title"
\* strings of __NEXT_DATA__ (next.json tells whether the script is there
\* and is JSON), the aria-labels, the headings, and the "title" strings of
\* the raw text.
FromNextData(p) == IF p.next.json THEN Collect(<<>>, p.next.titles) ELSE <<>>

\* lines 76-85
FromLabels(titles, p) ==
    IF Len(titles) < TudumN THEN Collect(Collect(titles, p.aria), p.heads) ELSE titles

\* lines 88-93
FromRawHtml(titles, p) ==
    IF Len(titles) < TudumN THEN Collect(titles, p.raw) ELSE titles

\* line 96: titles[:10]
FirstTen(titles) == SubSeq(titles, 1, Min({Len(titles), TudumN}))

\* lines 53-96
fetch_tudum_titles(p) == FirstTen(FromRawHtml(FromLabels(FromNextData(p), p), p))

(***************************************************************************)
(* app.py: tmdb_search_tv, tmdb_get_imdb_id, catalog                       *)
(***************************************************************************)
\* lines 99-120: as tmdb_lookup, on /search/tv
tmdb_search_tv(has_key, reply) ==
    IF ~has_key THEN [id |-> NoneInt, poster_path |-> NoneStr]
    ELSE IF reply.kind = "ok" /\ reply.results # <<>>
         THEN [id |-> reply.results[1].id,
               poster_path |-> reply.results[1].poster_path]
         ELSE [id |-> NoneInt, poster_path |-> NoneStr]

\* lines 122-137: the imdb_id of the answer, when it starts with "tt"
tmdb_get_imdb_id(has_key, tv_id, reply) ==
    IF ~has_key \/ ~Truthy(tv_id) THEN NoneStr
    ELSE IF reply.kind = "ok" /\ TruthyStr(reply.imdb_id)
            /\ Len(reply.imdb_id) >= 2 /\ SubSeq(reply.imdb_id, 1, 2) = <<"t","t">>
         THEN reply.imdb_id
         ELSE NoneStr

IsSlugChar(c) == IsLowerCh(c) \/ IsDigit(c)

RECURSIVE SkipNonSlug(_, _)
SkipNonSlug(s, i) ==
    IF i <= Len(s) /\ ~IsSlugChar(s[i]) THEN SkipNonSlug(s, i + 1) ELSE i

\* re.sub(r"[^a-z0-9]+", "-", s)
RECURSIVE DashRuns(_)
DashRuns(s) ==
    IF s = <<>> THEN <<>>
    ELSE IF IsSlugChar(s[1]) THEN <<s[1]>> \o DashRuns(Tail(s))
         ELSE <<"-">> \o DashRuns(SubSeq(s, SkipNonSlug(s, 1), Len(s)))

\* line 180
Slug(name) == StripChars(DashRuns(Lower(name)), {"-"})

NetflixFallback == <<"n","e","t","f","l","i","x","-","f","a","l","l","b","a","c","k",":">>

\* lines 170-189: the record of the title at position i
catalog_meta(name, i, found, imdb_id) ==
    [id |-> IF TruthyStr(imdb_id) THEN imdb_id
            ELSE IF Truthy(found.id) THEN TmdbTv \o IntToStr(found.id.v)
            ELSE NetflixFallback \o Slug(name),
     type |-> "series",
     name |-> name,
     poster |-> IF TruthyStr(found.poster_path)
                THEN PosterBase \o found.poster_path ELSE NoneStr,
     description |-> DescriptionHead \o IntToStr(i)]

Sentinel(id) ==
    [id |-> id, type |-> "series", name |-> <<>>, poster |-> NoneStr,
     description |-> <<>>]
UpdateRequired == Sentinel(<<"n","e","t","f","l","i","x","-","n","l","-","u","p","d","a","t","e","-","r","e","q","u","i","r","e","d">>)
NoData == Sentinel(<<"n","e","t","f","l","i","x","-","n","l","-","n","o","-","d","a","t","a">>)

\* the pages of Tudum: up to MaxPageTitles strings, found in this order in
\* __NEXT_DATA__, the aria-labels, the headings and the raw text
MaxPageTitles == 3

TudumStrings == {
    <<"D","a","r","k">>,
    <<"D","A","R","K">>,
    <<"D","a","r","k","!">>,
    <<"D","a","r","k",":"," ","S","e","a","s","o","n"," ","1">>,
    <<"O","n","l","y">>,
    <<"U","p">> }

RECURSIVE StringSeqs(_)
StringSeqs(n) ==
    IF n = 0 THEN {<<>>}
    ELSE LET shorter == StringSeqs(n - 1)
         IN  shorter \cup {Append(q, t) : q \in shorter, t \in TudumStrings}

Cuts(n) == {x \in (0..n) \X (0..n) \X (0..n) : x[1] <= x[2] /\ x[2] <= x[3]}

TudumPages(n) ==
    UNION {{[next |-> [json |-> j, titles |-> SubSeq(q, 1, x[1])],
             aria |-> SubSeq(q, x[1] + 1, x[2]),
             heads |-> SubSeq(q, x[2] + 1, x[3]),
             raw |-> SubSeq(q, x[3] + 1, Len(q))] :
              j \in BOOLEAN, x \in Cuts(Len(q))} :
           q \in StringSeqs(n)}

TudIdle == [pc |-> "idle", page |-> [next |-> [json |-> FALSE, titles |-> <<>>],
                                     aria |-> <<>>, heads |-> <<>>, raw |-> <<>>],
            titles |-> <<>>]

TudumInit ==
    tud \in {[TudIdle EXCEPT !.pc = "in", !.page = p] :
               p \in {x \in TudumPages(MaxPageTitles) : x.next.json \/ x.next.titles = <<>>}}

FetchTudumTitles ==
    /\ tud.pc = "in"
    /\ tud' = [tud EXCEPT !.pc = "out", !.titles = fetch_tudum_titles(tud.page)]
    /\ UNCHANGED <<mainVars, api_key, cat, clean, tbl>>

\* the lists fetch_tudum_titles returns for the pages
TudumLists(pages) == {fetch_tudum_titles(p) : p \in pages}

\* the answers of /tv/{id}/external_ids
ImdbReplies == {[kind |-> "error", imdb_id |-> NoneStr],
                [kind |-> "ok", imdb_id |-> NoneStr],
                [kind |-> "ok", imdb_id |-> <<"t","t","5","7","5","3","8","5","6">>]}

CatIdle == [pc |-> "idle", titles |-> <<>>, i |-> 1, metas |-> <<>>, found |-> <<>>]

CatalogInit == cat = [CatIdle EXCEPT !.pc = "start"]

\* lines 156-165 and 190-197: the titles are fetched; a failure and an empty
\* list are answered with one sentinel record
CatalogFetch ==
    /\ cat.pc = "start"
    /\ \/ cat' = [cat EXCEPT !.pc = "done", !.metas = <<UpdateRequired>>]
       \/ \E titles \in TudumLists(TudumPages(MaxPageTitles)) :
            IF titles = <<>>
            THEN cat' = [cat EXCEPT !.pc = "done", !.metas = <<NoData>>]
            ELSE cat' = [cat EXCEPT !.pc = "resolve", !.titles = titles]
    /\ UNCHANGED <<mainVars, api_key, clean, tbl, tud>>

\* lines 169-189: one turn of the loop of catalog
CatalogResolve ==
    /\ cat.pc = "resolve"
    /\ cat.i <= Len(cat.titles)
    /\ \E reply \in Replies, ext \in ImdbReplies :
         LET name == cat.titles[cat.i]
             found == tmdb_search_tv(api_key, reply)
             imdb_id == tmdb_get_imdb_id(api_key, found.id, ext)
         IN  cat' = [cat EXCEPT
                 !.i = @ + 1,
                 !.found = Append(@, Truthy(found.id) \/ TruthyStr(imdb_id)),
                 !.metas = Append(@, catalog_meta(name, cat.i, found, imdb_id))]
    /\ UNCHANGED <<mainVars, api_key, clean, tbl, tud>>

\* line 199: the answer is sent
CatalogRespond ==
    /\ cat.pc = "resolve"
    /\ cat.i > Len(cat.titles)
    /\ cat' = [cat EXCEPT !.pc = "done"]
    /\ UNCHANGED <<mainVars, api_key, clean, tbl, tud>>

(***************************************************************************)
(* table_to_top10 on one table                                             *)
(***************************************************************************)
TblIdle == [pc |-> "idle", df |-> NoneDf, out |-> <<>>]

TableInit ==
    /\ tbl \in {[pc |-> "in", df |-> f, out |-> <<>>] :
                 f \in Frames(MaxRows, RankCells, NameCells)}

TableToTop10 ==
    /\ tbl.pc = "in"
    /\ \E order \in OrdersOf(tbl.df) :
         tbl' = [tbl EXCEPT !.pc = "out", !.out = table_to_top10(tbl.df, order)]
    /\ UNCHANGED <<mainVars, api_key, cat, clean, tud>>

(***************************************************************************)
(* Specifications                                                          *)
(***************************************************************************)
MainIdle ==
    /\ pc = "idle"
    /\ fetch = NoFetch
    /\ hist = NoHist
    /\ page = NoPage
    /\ error = None
    /\ lists = [shows |-> <<>>, movies |-> <<>>]
    /\ build = NoBuild
    /\ calls = <<>>
    /\ files = OldFiles

\* a run of main() of build_cache.py
Init == MainInit /\ cat = CatIdle /\ clean = CleanIdle /\ tbl = TblIdle /\ tud = TudIdle
Next ==
    \/ Request
    \/ GiveUp
    \/ Extract
    \/ Lookup
    \/ OpenFile
    \/ DumpFile
    \/ Crash
Spec == Init /\ [][Next]_vars

\* one request of the catalog of app.py
InitCatalog ==
    /\ MainIdle /\ api_key \in BOOLEAN /\ CatalogInit
    /\ clean = CleanIdle /\ tbl = TblIdle /\ tud = TudIdle
CatalogNext ==
    \/ CatalogFetch
    \/ CatalogResolve
    \/ CatalogRespond
SpecCatalog == InitCatalog /\ [][CatalogNext]_vars

\* fetch_tudum_titles applied to one page
InitTudum ==
    /\ MainIdle /\ api_key = FALSE /\ TudumInit
    /\ cat = CatIdle /\ clean = CleanIdle /\ tbl = TblIdle
TudumNext == FetchTudumTitles
SpecTudum == InitTudum /\ [][TudumNext]_vars

\* clean_title applied to one title
InitClean ==
    /\ MainIdle /\ api_key = FALSE /\ CleanInit
    /\ cat = CatIdle /\ tbl = TblIdle /\ tud = TudIdle
CleanNext == Normalize
SpecClean == InitClean /\ [][CleanNext]_vars

\* table_to_top10 applied to one table
InitTable ==
    /\ MainIdle /\ api_key = FALSE /\ TableInit
    /\ cat = CatIdle /\ clean = CleanIdle /\ tud = TudIdle
TableNext == TableToTop10
SpecTable == InitTable /\ [][TableNext]_vars

(***************************************************************************)
(* Properties                                                              *)
(***************************************************************************)
\* a response fetch_first_available_html may return: not 404, a 2xx status
\* and one of the marker strings in the text
Usable(resp) ==
    /\ ~resp.raised
    /\ resp.status # 404
    /\ resp.status \in 200..299
    /\ \/ MarkerNetflix \in resp.html.markers
       \/ MarkerMovies \in resp.html.markers

Last(q) == q[Len(q)]

C1_State ==
    /\ Len(hist.requested) <= DaysBack + 1
    /\ \A i \in DOMAIN hist.requested : hist.requested[i] = i - 1
    /\ (pc = "fetch" /\ hist.requested # <<>>) => ~Usable(hist.resp)
    /\ (pc = "fetch") => page = NoPage
    /\ (pc \notin {"fetch", "failed", "crashed"}) => page # NoPage
    /\ page # NoPage =>
         /\ Usable(hist.resp)
         /\ page = [date |-> Last(hist.requested), html |-> hist.resp.html]

C1_Step == page # NoPage => (hist' = hist /\ page' = page)

C2_FailsOnlyWhenExhausted ==
    pc = "failed" => Len(hist.requested) = DaysBack + 1

\* C3: each artifact is a complete document, the previous or the new one,
\* at every step of the run and after a crash.
C3_ArtifactsComplete ==
    \A f \in {"series", "movies"} : files[f].kind = "doc"

\* C4: when main() raises, both artifacts are the previous ones.
C4_FailureKeepsCache == pc = "failed" => files = OldFiles

\* a run whose page gave no title failed, the artifacts untouched
C4_Witness == pc = "failed" /\ error = "no top10" /\ files = OldFiles

\* C6: build_metas has one record per title looked up so far, in order and
\* under the title's name, and a title without tmdb_id has the fallback id
\* of its rank; when the loop ends there is one record per title.
C6_OneRecordPerEntry ==
    /\ Len(build.metas) = build.i - 1
    /\ Len(build.found) = build.i - 1
    /\ pc = "dump" => Len(build.metas) = Len(build.list)
    /\ \A i \in DOMAIN build.metas :
         /\ build.metas[i].name = build.list[i].name
         /\ ~build.found[i].some =>
              build.metas[i].id =
                (IF build.is_series THEN FallbackSeries ELSE FallbackMovie)
                \o IntToStr(build.list[i].rank)

\* two titles were looked up, one found and one not
C6_Witness ==
    /\ pc = "dump"
    /\ Len(build.metas) = 2
    /\ \E i, j \in DOMAIN build.found : build.found[i].some /\ ~build.found[j].some

\* C7: no two records without tmdb_id of one metas list have the same id.
C7_FallbackIdsDistinct ==
    \A i, j \in DOMAIN build.metas :
        (i # j /\ ~build.found[i].some /\ ~build.found[j].some)
            => build.metas[i].id # build.metas[j].id

Expected(is_series) == IF is_series THEN SearchTv ELSE SearchMovie
Alternate(is_series) == IF is_series THEN SearchMovie ELSE SearchTv

EqualUpToCase(a, b) == Lower(a) = Lower(b)

\* C10: no two titles of a list returned by fetch_tudum_titles are equal up
\* to letter case, and the list has at most 10 titles.
C10_NoCaseDuplicates ==
    tud.pc = "out" =>
        /\ Len(tud.titles) <= TudumN
        /\ \A i, j \in DOMAIN tud.titles :
             EqualUpToCase(tud.titles[i], tud.titles[j]) => i = j

\* C10, for table_to_top10: no two titles equal up to letter case
TableNoCaseDuplicates ==
    tbl.pc = "out" =>
        \A i, j \in DOMAIN tbl.out :
            EqualUpToCase(tbl.out[i].name, tbl.out[j].name) => i = j

\* C7, for catalog(): no two records that took the fallback path have the
\* same id
CatalogFallbackIdsDistinct ==
    \A i, j \in DOMAIN cat.found :
        (i # j /\ ~cat.found[i] /\ ~cat.found[j]) => cat.metas[i].id # cat.metas[j].id

\* C5: the ranks of a result of table_to_top10 are 1..N in sequence order,
\* N <= 10.
C5_RanksContiguous ==
    tbl.pc = "out" =>
        /\ Len(tbl.out) <= TopN
        /\ \A i \in DOMAIN tbl.out : tbl.out[i].rank = i

\* C9: clean_title is idempotent: normalising a normalised title changes
\* nothing, also for stacked qualifiers.
C9_Idempotent == clean.pc = "out" => clean.twice = clean.once

====
